---- MODULE Spec2Model ----
(***************************************************************************)
(* killableprocess.Popen: one spawned child (and a descendant in its       *)
(* process group / job), the handle's fields, the calling thread inside    *)
(* poll() / kill() / wait(), and the killer thread wait(timeout) starts on *)
(* the POSIX backend.                                                      *)
(***************************************************************************)
EXTENDS Integers, Sequences, FiniteSets, TLC

\* ------------------------------------------------------------- bounds
MaxClock == 1
MaxTimeout == 1
MaxEintr == 1

\* -------------------------------------------------- program constants
SIGKILL == 9
KilledPosix == -9
KilledWin == 127
NoTimeout == -1
TicksPerSecond == 10000000
MsPerSecond == 1000

\* Python's None and a set value: returncode, a return value.
None == <<>>
Some(v) == <<v>>

ExitCodes == {0, 3}
Timeouts == {NoTimeout} \cup (0..MaxTimeout)
DeadStates == {None, Some(1)}

VARIABLES
  mswindows,    \* the backend selected at import (sys.platform == "win32")
  killPerm,     \* whether the OS lets this user signal/terminate the child
  entry,        \* how the program uses the module: "Popen" | "check_call"
  argsPos,      \* the positional arguments given to Popen / check_call
  argsKw,       \* the 'args' keyword argument, None when not given
  ccResult,     \* check_call's outcome, <<>> until it ends
  clock,        \* time.time()
  spawnIdx,     \* how many steps of the spawn sequence are done
  job,          \* Windows: the job object exists
  inGroup,      \* the child is in its own process group / in the job
  grandIn,      \* the descendant was born in the child's group / job
  child,        \* "none" | "created" (no user code yet) | "running" |
                \* "zombie" (exited, not reaped) | "reaped"
  sts,          \* the status the OS holds for the exited child
  exitArg,      \* Some(c) when the child itself called exit(c)
  exitClock,    \* the clock when the child stopped running
  grand,        \* a descendant the child spawned: "none" | "running" | "dead"
  pidReused,    \* the reaped pid now names an unrelated process
  strayKilled,  \* a signal reached that unrelated process
  returncode, rtime, utime, stime,   \* the handle's fields
  pc,           \* the calling thread: "spawn", "idle", its place inside wait(),
                \* or "done" when check_call has ended
  op,           \* the call in progress, or the last one completed
  retval,       \* what the last completed call returned
  raised,       \* "none", or the exception the last completed call raised
  wStart, wTimeout, wGroup,          \* wait()'s arguments and its start time
  lsts,         \* the local sts of _waitforstatus
  excPending,   \* "none", or the exception propagating through wait()'s finally
  eintr,        \* EINTR retries taken by _wait4_no_intr in this call
  killer,       \* killerthread: "none" | "k_wait" | "k_kill" | "k_set" | "k_done"
  doneevent,    \* threading.Event
  killCalls,    \* history: kill() calls made by the current wait() call
  wroteBy,      \* history: the paths that assigned returncode in this wait()
  wEntered,     \* history: this wait() got past the returncode check at its top
  sawExitFirst, \* history: this wait() reaped the child before its deadline
  toRunning,    \* history: the timeout elapsed with the child still running
  waited,       \* history: the value the last wait() returned, no kill() since
  pChild,       \* history: the child's state when the last poll() / kill() was called
  grandKilled,  \* history: the last kill() was a group kill that ended the descendant
  rewait,       \* history: the last wait() was called after a wait() had returned
  reapFailed,   \* history: in this call wait4 raised an OSError other than EINTR
  timesWrites   \* history: how many times rtime, utime and stime were stored

cfgVars == <<mswindows, killPerm, entry, argsPos, argsKw>>
spawnVars == <<spawnIdx, job, inGroup, grandIn>>
osVars == <<child, sts, exitArg, exitClock, grand, pidReused, strayKilled>>
timeVars == <<rtime, utime, stime, timesWrites>>
argVars == <<wStart, wTimeout, wGroup>>
callVars == <<pc, op, retval, raised>>
waitVars == <<lsts, excPending, eintr>>
thrVars == <<killer, doneevent>>
histVars == <<killCalls, wroteBy, wEntered, sawExitFirst, toRunning>>

vars == <<cfgVars, ccResult, spawnVars, grandKilled, clock, osVars,
          returncode, timeVars, argVars, callVars, waitVars, thrVars,
          histVars, waited, pChild, rewait, reapFailed>>

\* ---------------------------------------------------------- helpers
Timed == wTimeout # NoTimeout
Deadline == wStart + wTimeout
StartTime == 0
ChildCpu == IF child = "running" THEN clock ELSE exitClock

\* The raw status wait4 reports: exit(c) is c << 8, death by signal s is s.
RawExit(c) == c * 256
RawSignal(s) == s

WIFSIGNALED(s) == (s % 128) # 0 /\ (s % 128) # 127
WTERMSIG(s) == s % 128
WEXITSTATUS(s) == (s \div 256) % 256

\* subprocess.Popen._handle_exitstatus, called at lines 264 and 283.
HandleExitStatus(s) == IF WIFSIGNALED(s) THEN 0 - WTERMSIG(s) ELSE WEXITSTATUS(s)

\* Mutant: kill() stores the signal number without its sign.
KilledCode_unsigned == IF mswindows THEN KilledWin ELSE SIGKILL

\* kill(): self.returncode = 127 / self.returncode = -9.
KilledCode == IF mswindows THEN KilledWin ELSE KilledPosix

\* Mutant: kill() terminates the process alone whatever group says.
KillTarget_processOnly(group) == "process"

\* kill(): "if group:" killpg / TerminateJobObject, else kill / TerminateProcess.
KillTarget(group) == IF group THEN "group" ELSE "process"

\* The descendant is a member of the process group / job that bears the child's
\* pid / that the handle holds.
GrandInGroup == grand = "running" /\ grandIn

\* os.killpg(pid, SIGKILL) / os.kill(pid, SIGKILL): ESRCH when nothing is there
\* to signal, EPERM when the caller may not signal it.
PosixKillOK(group) ==
  /\ killPerm
  /\ IF KillTarget(group) = "group"
       THEN (inGroup /\ child \in {"running", "zombie"}) \/ GrandInGroup
       ELSE child \in {"running", "zombie"} \/ pidReused

\* winprocess.TerminateJobObject / TerminateProcess.
WinTerminateOK(group) == killPerm

KillOK(group) == IF mswindows THEN WinTerminateOK(group) ELSE PosixKillOK(group)

\* What a delivered termination does to the processes.
KillEffect(group) ==
  /\ LET hit == child = "running" /\ (KillTarget(group) = "group" => inGroup)
     IN /\ child' = IF hit THEN "zombie" ELSE child
        /\ sts' = IF hit
                    THEN (IF mswindows THEN KilledWin ELSE RawSignal(SIGKILL))
                    ELSE sts
        /\ exitClock' = IF hit THEN clock ELSE exitClock
  /\ grand' = IF KillTarget(group) = "group" /\ GrandInGroup
               THEN "dead" ELSE grand
  /\ strayKilled' = (strayKilled \/ (~group /\ child = "reaped" /\ pidReused))
  /\ UNCHANGED <<exitArg, pidReused>>

\* ------------------------------------------------------------- Init
Init ==
  /\ mswindows \in BOOLEAN
  /\ killPerm \in BOOLEAN
  /\ entry \in {"Popen", "check_call"}
  /\ argsPos \in {<<"ls">>, <<>>}
  /\ entry = "Popen" => argsPos = <<"ls">>
  /\ argsKw = IF argsPos = <<>> THEN Some("dir") ELSE None
  /\ ccResult = <<>>
  /\ clock = 0
  /\ spawnIdx = 0 /\ job = FALSE /\ inGroup = FALSE /\ grandIn = FALSE
  /\ grandKilled = FALSE
  /\ child = "none" /\ sts = 0 /\ exitArg = None /\ exitClock = 0
  /\ grand = "none"
  /\ pidReused = FALSE /\ strayKilled = FALSE
  /\ returncode = None /\ rtime = 0 /\ utime = 0 /\ stime = 0
  /\ pc = "spawn" /\ op = "none" /\ retval = None /\ raised = "none"
  /\ wStart = 0 /\ wTimeout = NoTimeout /\ wGroup = TRUE
  /\ lsts = 0 /\ excPending = "none" /\ eintr = 0
  /\ killer = "none" /\ doneevent = FALSE
  /\ killCalls = 0 /\ wroteBy = {} /\ wEntered = FALSE
  /\ sawExitFirst = FALSE /\ toRunning = FALSE
  /\ waited = None /\ pChild = "running" /\ rewait = FALSE
  /\ reapFailed = FALSE /\ timesWrites = 0

\* ------------------------------------------------------------ spawn
\* Mutant: the main thread is resumed before the process is put in the job.
WinSpawnOrder_resumeFirst ==
  <<"CreateJobObject", "CreateProcess", "ResumeThread",
    "AssignProcessToJobObject">>

\* _execute_child (Windows): the calls that create the child, in their order.
WinSpawnOrder ==
  <<"CreateJobObject", "CreateProcess", "AssignProcessToJobObject",
    "ResumeThread">>

\* __init__ (POSIX): subprocess forks, the child runs setpgid_preexec_fn, which
\* calls os.setpgid(0, 0) and then the caller's preexec_fn, and execs.
PosixSpawnOrder == <<"fork", "setpgid", "real_preexec_fn", "exec">>

SpawnOrder == IF mswindows THEN WinSpawnOrder ELSE PosixSpawnOrder

\* What a winprocess call of the spawn sequence does to the child.
WinStepEffect(step) ==
  CASE step = "CreateJobObject" -> "job"
    [] step = "CreateProcess" -> "create"
    [] step = "AssignProcessToJobObject" -> "join"
    [] step = "ResumeThread" -> "start"

\* What a step of the POSIX spawn does to the child: from real_preexec_fn on the
\* child runs code of the caller's choice.
PosixStepEffect(step) ==
  CASE step = "fork" -> "create"
    [] step = "setpgid" -> "join"
    [] step = "real_preexec_fn" -> "start"
    [] step = "exec" -> "exec"

\* One step of Popen(...): the handle is usable when the last one is done.
SpawnStep ==
  /\ pc = "spawn"
  /\ LET step == SpawnOrder[spawnIdx + 1]
         eff == IF mswindows THEN WinStepEffect(step) ELSE PosixStepEffect(step)
     IN /\ job' = (job \/ eff = "job")
        /\ child' = CASE eff = "create" -> "created"
                      [] eff = "start" /\ child = "created" -> "running"
                      [] OTHER -> child
        /\ inGroup' = (inGroup \/ eff = "join")
  /\ spawnIdx' = spawnIdx + 1
  /\ pc' = IF spawnIdx + 1 = Len(SpawnOrder) THEN "idle" ELSE "spawn"
  /\ UNCHANGED <<cfgVars, ccResult, grandIn, grandKilled, clock, sts, exitArg,
                 exitClock, grand, pidReused, strayKilled, returncode,
                 timeVars, argVars, op, retval, raised, waitVars, thrVars,
                 histVars, waited, pChild, rewait, reapFailed>>

\* ------------------------------------------------------ environment
Tick ==
  /\ clock < MaxClock
  /\ clock' = clock + 1
  /\ UNCHANGED <<cfgVars, ccResult, spawnVars, grandKilled, osVars,
                 returncode, timeVars, argVars, callVars, waitVars, thrVars,
                 histVars, waited, pChild, rewait, reapFailed>>

ChildExit(c) ==
  /\ child = "running"
  /\ child' = "zombie"
  /\ sts' = IF mswindows THEN c ELSE RawExit(c)
  /\ exitArg' = Some(c)
  /\ exitClock' = clock
  /\ UNCHANGED <<cfgVars, ccResult, spawnVars, grandKilled, clock, grand,
                 pidReused, strayKilled, returncode, timeVars, argVars,
                 callVars, waitVars, thrVars, histVars, waited, pChild,
                 rewait, reapFailed>>

\* The child's code spawns a process, which inherits the child's process group
\* / job membership.
GrandSpawn ==
  /\ child = "running" /\ grand = "none"
  /\ grand' = "running"
  /\ grandIn' = inGroup
  /\ UNCHANGED <<cfgVars, ccResult, spawnIdx, job, inGroup, grandKilled,
                 clock, child, sts, exitArg, exitClock, pidReused,
                 strayKilled, returncode, timeVars, argVars, callVars,
                 waitVars, thrVars, histVars, waited, pChild, rewait,
                 reapFailed>>

GrandExit ==
  /\ grand = "running"
  /\ grand' = "dead"
  /\ UNCHANGED <<cfgVars, ccResult, spawnVars, grandKilled, clock, child, sts,
                 exitArg, exitClock, pidReused, strayKilled, returncode,
                 timeVars, argVars, callVars, waitVars, thrVars, histVars,
                 waited, pChild, rewait, reapFailed>>

\* Another part of the program (os.wait(), an ignored SIGCHLD) reaps the child:
\* a later wait4 on the pid fails with ECHILD.
ReapedElsewhere ==
  /\ ~mswindows
  /\ child = "zombie"
  /\ child' = "reaped"
  /\ UNCHANGED <<cfgVars, ccResult, spawnVars, grandKilled, clock, sts,
                 exitArg, exitClock, grand, pidReused, strayKilled,
                 returncode, timeVars, argVars, callVars, waitVars, thrVars,
                 histVars, waited, pChild, rewait, reapFailed>>

\* The kernel hands a reaped pid out again once no process group bears it.
PidReuse ==
  /\ ~mswindows
  /\ child = "reaped" /\ grand # "running" /\ ~pidReused
  /\ pidReused' = TRUE
  /\ UNCHANGED <<cfgVars, ccResult, spawnVars, grandKilled, clock, child, sts,
                 exitArg, exitClock, grand, strayKilled, returncode, timeVars,
                 argVars, callVars, waitVars, thrVars, histVars, waited,
                 pChild, rewait, reapFailed>>

Env ==
  \/ Tick
  \/ GrandSpawn
  \/ \E c \in ExitCodes : ChildExit(c)
  \/ GrandExit
  \/ ReapedElsewhere
  \/ PidReuse

\* ------------------------------------------------ the calling thread
\* wait4's rusage for the child: (user time, system time).
Rusage == <<ChildCpu, 0>>

\* Mutant: _wait stores the timings whatever wait4 returned.
StoreTimes_always(found) == TRUE

\* _wait: "if pid:", wait4 returns pid 0 under WNOHANG when the child still runs.
StoreTimes(found) == found

\* _wait: the timings stored after wait4 returned; found is "pid # 0".
SetTimesPosix(found) ==
  IF StoreTimes(found)
    THEN /\ rtime' = clock - StartTime
         /\ utime' = Rusage[1]
         /\ stime' = Rusage[2]
         /\ timesWrites' = timesWrites + 1
    ELSE UNCHANGED timeVars

\* _getstatus: GetProcessTimes counts 100 ns units.
SetTimesWin ==
  /\ rtime' = clock - StartTime
  /\ utime' = (ChildCpu * TicksPerSecond) \div TicksPerSecond
  /\ stime' = (0 * TicksPerSecond) \div TicksPerSecond
  /\ timesWrites' = timesWrites + 1

\* Mutant: wait() without its early return.
AlreadySet_never == FALSE

\* "if self.returncode is not None: return self.returncode" at the top of wait().
AlreadySet == returncode # None

\* Mutant: wait() returns the status it decoded itself, not the field.
WaitResult_local == Some(HandleExitStatus(lsts))

\* "return self.returncode" at the end of wait().
WaitResult == returncode

\* Mutant: wait() leaves without joining the thread.
JoinDone_skipped == TRUE

\* thd.join() returns once killerthread has run to its end.
JoinDone == killer = "k_done"

\* Mutant: killerthread tries the kill again when it raised.
KillerNext_retry(ok) == IF ok THEN "k_set" ELSE "k_kill"

\* killerthread after self.kill(group): a raised OSError is passed over.
KillerNext(ok) == IF ok THEN "k_set" ELSE "k_done"

\* doneevent.wait(timeout) returns when the event is set or the timeout is over.
EventWaitOver == doneevent \/ clock >= Deadline

\* WaitForSingleObject(handle, int(timeout * 1000)) gives WAIT_TIMEOUT.
WinTimedOut ==
  /\ Timed
  /\ (clock - wStart) * MsPerSecond >= wTimeout * MsPerSecond

Return(v) ==
  /\ pc' = "idle"
  /\ retval' = v
  /\ raised' = "none"
  /\ waited' = v

Raise(e) ==
  /\ pc' = "idle"
  /\ retval' = None
  /\ raised' = e
  /\ waited' = None

\* poll(_deadstate).  The Windows branch calls WaitForSingleObject and
\* WAIT_OBJECT_0 by bare names the module never binds: NameError.
CallPoll(d) ==
  /\ pc = "idle" /\ entry = "Popen"
  /\ op' = "poll"
  /\ pChild' = child
  /\ pc' = pc
  /\ reapFailed' = (returncode = None /\ ~mswindows /\ child = "reaped")
  /\ IF returncode # None
       THEN /\ retval' = returncode /\ raised' = "none"
            /\ UNCHANGED <<osVars, returncode, timeVars>>
       ELSE IF mswindows
         THEN /\ retval' = None /\ raised' = "NameError"
              /\ UNCHANGED <<osVars, returncode, timeVars>>
         ELSE CASE child = "running" ->
                     /\ retval' = None /\ raised' = "none"
                     /\ SetTimesPosix(FALSE)
                     /\ UNCHANGED <<osVars, returncode>>
                [] child = "zombie" ->
                     /\ child' = "reaped"
                     /\ SetTimesPosix(TRUE)
                     /\ returncode' = Some(HandleExitStatus(sts))
                     /\ retval' = Some(HandleExitStatus(sts))
                     /\ raised' = "none"
                     /\ UNCHANGED <<sts, exitArg, exitClock, grand, pidReused,
                                    strayKilled>>
                [] child = "reaped" ->
                     /\ returncode' = d
                     /\ retval' = d /\ raised' = "none"
                     /\ UNCHANGED <<osVars, timeVars>>
  /\ UNCHANGED <<cfgVars, ccResult, spawnVars, grandKilled, clock, argVars,
                 waitVars, thrVars, histVars, waited, rewait>>

\* kill(group), called by the user of the handle.
CallKill(g) ==
  /\ pc = "idle" /\ entry = "Popen"
  /\ op' = "kill"
  /\ pc' = pc
  /\ retval' = None
  /\ waited' = None
  /\ pChild' = child
  /\ grandKilled' = (g /\ KillOK(g) /\ GrandInGroup)
  /\ reapFailed' = FALSE
  /\ IF KillOK(g)
       THEN /\ KillEffect(g)
            /\ returncode' = Some(KilledCode)
            /\ raised' = "none"
       ELSE /\ raised' = "OSError"
            /\ UNCHANGED <<osVars, returncode>>
  /\ UNCHANGED <<cfgVars, ccResult, spawnVars, clock, timeVars, argVars,
                 waitVars, thrVars, histVars, rewait>>

\* wait(timeout, group) up to thd.start() / the platform wait.
CallWait(t, g) ==
  /\ pc = "idle"
  /\ entry = "check_call" => (op = "none" /\ g)
  /\ op' = "wait"
  /\ wStart' = clock /\ wTimeout' = t /\ wGroup' = g
  /\ lsts' = 0 /\ excPending' = "none" /\ eintr' = 0
  /\ killCalls' = 0 /\ wroteBy' = {}
  /\ reapFailed' = FALSE
  /\ sawExitFirst' = FALSE /\ toRunning' = FALSE
  /\ rewait' = (waited # None)
  /\ IF AlreadySet
       THEN /\ Return(returncode)
            /\ wEntered' = FALSE
            /\ UNCHANGED thrVars
       ELSE /\ pc' = IF mswindows THEN "win_wait" ELSE "w_check"
            /\ retval' = None /\ raised' = "none" /\ waited' = None
            /\ wEntered' = TRUE
            /\ killer' = IF ~mswindows /\ t # NoTimeout THEN "k_wait" ELSE "none"
            /\ doneevent' = FALSE
  /\ UNCHANGED <<cfgVars, ccResult, spawnVars, grandKilled, clock, osVars,
                 returncode, timeVars, pChild>>

\* _waitforstatus: "if self.returncode is None:".
WaitCheck ==
  /\ pc = "w_check"
  /\ IF returncode = None
       THEN /\ pc' = "w_block"
            /\ UNCHANGED <<retval, raised, waited>>
       ELSE IF Timed
         THEN /\ pc' = "w_finally"
              /\ UNCHANGED <<retval, raised, waited>>
         ELSE Return(returncode)
  /\ UNCHANGED <<cfgVars, ccResult, spawnVars, grandKilled, clock, osVars,
                 returncode, timeVars, argVars, op, waitVars, thrVars,
                 histVars, pChild, rewait, reapFailed>>

\* _wait(0): wait4 returns the exited child's status; the timings are stored.
WaitReap ==
  /\ pc = "w_block"
  /\ child = "zombie"
  /\ child' = "reaped"
  /\ lsts' = sts
  /\ SetTimesPosix(TRUE)
  /\ sawExitFirst' = (Timed /\ clock < Deadline)
  /\ pc' = "w_status"
  /\ UNCHANGED <<cfgVars, ccResult, spawnVars, grandKilled, clock, sts,
                 exitArg, exitClock, grand, pidReused, strayKilled,
                 returncode, argVars, op, retval, raised, excPending, eintr,
                 thrVars, killCalls, wroteBy, wEntered, toRunning, waited,
                 pChild, rewait, reapFailed>>

\* Mutant: _wait4_no_intr raises on EINTR like on any other error.
RetryOnEintr_raise == FALSE

\* _wait4_no_intr: "if e.errno == errno.EINTR: continue".
RetryOnEintr == TRUE

\* _wait4_no_intr: wait4 is interrupted (EINTR).
WaitEintr ==
  /\ pc = "w_block"
  /\ eintr < MaxEintr
  /\ eintr' = eintr + 1
  /\ IF RetryOnEintr
       THEN UNCHANGED <<callVars, excPending, waited>>
       ELSE IF Timed
         THEN /\ excPending' = "EINTR"
              /\ pc' = "w_finally"
              /\ UNCHANGED <<op, retval, raised, waited>>
         ELSE /\ excPending' = "none"
              /\ Raise("EINTR")
              /\ op' = op
  /\ UNCHANGED <<cfgVars, ccResult, spawnVars, grandKilled, clock, osVars,
                 returncode, timeVars, argVars, lsts, thrVars, histVars,
                 pChild, rewait, reapFailed>>

\* _wait4_no_intr: any other OSError (ECHILD: the child is not ours to reap), "raise".
WaitReapError ==
  /\ pc = "w_block"
  /\ child = "reaped"
  /\ reapFailed' = TRUE
  /\ IF Timed
       THEN /\ excPending' = "OSError"
            /\ pc' = "w_finally"
            /\ UNCHANGED <<retval, raised, waited>>
       ELSE /\ excPending' = "none"
            /\ Raise("OSError")
  /\ UNCHANGED <<cfgVars, ccResult, spawnVars, grandKilled, clock, osVars,
                 returncode, timeVars, argVars, op, lsts, eintr, thrVars,
                 histVars, pChild, rewait>>

\* self._handle_exitstatus(sts); without a timeout, "return self.returncode".
WaitStatus ==
  /\ pc = "w_status"
  /\ returncode' = Some(HandleExitStatus(lsts))
  /\ wroteBy' = wroteBy \cup {"exit"}
  /\ IF Timed
       THEN /\ pc' = "w_finally"
            /\ UNCHANGED <<retval, raised, waited>>
       ELSE Return(Some(HandleExitStatus(lsts)))
  /\ UNCHANGED <<cfgVars, ccResult, spawnVars, grandKilled, clock, osVars,
                 timeVars, argVars, op, waitVars, thrVars, killCalls,
                 wEntered, sawExitFirst, toRunning, pChild, rewait,
                 reapFailed>>

\* finally: doneevent.set().
WaitSetEvent ==
  /\ pc = "w_finally"
  /\ doneevent' = TRUE
  /\ pc' = "w_join"
  /\ UNCHANGED <<cfgVars, ccResult, spawnVars, grandKilled, clock, osVars,
                 returncode, timeVars, argVars, op, retval, raised, waitVars,
                 killer, histVars, waited, pChild, rewait, reapFailed>>

\* Mutant: the exception of the blocking wait is dropped after the cleanup.
PendingRaise_swallowed == FALSE

\* try / finally: an exception raised in the try block goes on after the finally.
PendingRaise == excPending # "none"

\* thd.join(), then the pending exception goes on or wait() returns.
WaitJoin ==
  /\ pc = "w_join"
  /\ JoinDone
  /\ IF PendingRaise THEN Raise(excPending) ELSE Return(WaitResult)
  /\ UNCHANGED <<cfgVars, ccResult, spawnVars, grandKilled, clock, osVars,
                 returncode, timeVars, argVars, op, waitVars, thrVars,
                 histVars, pChild, rewait, reapFailed>>

\* Windows: WaitForSingleObject is signalled; _getstatus(); return.
WinWaitSignaled ==
  /\ pc = "win_wait"
  /\ child # "running"
  /\ returncode' = Some(sts)
  /\ SetTimesWin
  /\ wroteBy' = wroteBy \cup {"exit"}
  /\ Return(Some(sts))
  /\ UNCHANGED <<cfgVars, ccResult, spawnVars, grandKilled, clock, osVars,
                 argVars, op, waitVars, thrVars, killCalls, wEntered,
                 sawExitFirst, toRunning, pChild, rewait, reapFailed>>

\* Windows: WaitForSingleObject gives WAIT_TIMEOUT.
WinWaitTimeout ==
  /\ pc = "win_wait"
  /\ child = "running"
  /\ WinTimedOut
  /\ toRunning' = TRUE
  /\ pc' = "win_kill"
  /\ UNCHANGED <<cfgVars, ccResult, spawnVars, grandKilled, clock, osVars,
                 returncode, timeVars, argVars, op, retval, raised, waitVars,
                 thrVars, killCalls, wroteBy, wEntered, sawExitFirst, waited,
                 pChild, rewait, reapFailed>>

\* Windows: self.kill(group); return self.returncode.
WinKill ==
  /\ pc = "win_kill"
  /\ killCalls' = killCalls + 1
  /\ IF KillOK(wGroup)
       THEN /\ KillEffect(wGroup)
            /\ returncode' = Some(KilledCode)
            /\ wroteBy' = wroteBy \cup {"kill"}
            /\ Return(Some(KilledCode))
       ELSE /\ Raise("OSError")
            /\ UNCHANGED <<osVars, returncode, wroteBy>>
  /\ UNCHANGED <<cfgVars, ccResult, spawnVars, grandKilled, clock, timeVars,
                 argVars, op, waitVars, thrVars, wEntered, sawExitFirst,
                 toRunning, pChild, rewait, reapFailed>>

\* ------------------------------------------------- the killer thread
\* doneevent.wait(timeout) is over.
KillerWake ==
  /\ killer = "k_wait"
  /\ EventWaitOver
  /\ killer' = "k_kill"
  /\ toRunning' = (toRunning \/ (~doneevent /\ child = "running"))
  /\ UNCHANGED <<cfgVars, ccResult, spawnVars, grandKilled, clock, osVars,
                 returncode, timeVars, argVars, callVars, waitVars, doneevent,
                 killCalls, wroteBy, wEntered, sawExitFirst, waited, pChild,
                 rewait, reapFailed>>

\* self.kill(group): os.killpg / os.kill.
KillerKill ==
  /\ killer = "k_kill"
  /\ killCalls' = killCalls + 1
  /\ killer' = KillerNext(KillOK(wGroup))
  /\ IF KillOK(wGroup) THEN KillEffect(wGroup) ELSE UNCHANGED osVars
  /\ UNCHANGED <<cfgVars, ccResult, spawnVars, grandKilled, clock, returncode,
                 timeVars, argVars, callVars, waitVars, doneevent, wroteBy,
                 wEntered, sawExitFirst, toRunning, waited, pChild, rewait,
                 reapFailed>>

\* self.returncode = -9, and the thread ends.
KillerSet ==
  /\ killer = "k_set"
  /\ returncode' = Some(KilledCode)
  /\ wroteBy' = wroteBy \cup {"kill"}
  /\ killer' = "k_done"
  /\ UNCHANGED <<cfgVars, ccResult, spawnVars, grandKilled, clock, osVars,
                 timeVars, argVars, callVars, waitVars, doneevent, killCalls,
                 wEntered, sawExitFirst, toRunning, waited, pChild, rewait,
                 reapFailed>>

\* Mutant: check_call raises for positive return codes only.
Truthy_positive(v) == v # None /\ v[1] > 0

\* check_call: "if retcode:".
Truthy(v) == v # None /\ v[1] # 0

\* check_call: cmd = kwargs.get("args"), args[0] when that is None.
ErrorCmd == IF argsKw = None THEN argsPos[1] ELSE argsKw[1]

\* call / check_call: Popen(*args, **kwargs).wait(**waitargs) has ended; an
\* exception of wait() goes through, a nonzero return code raises
\* CalledProcessError(retcode, cmd), and 0 makes check_call return (None).
CheckCallFinish ==
  /\ entry = "check_call"
  /\ pc = "idle" /\ op = "wait"
  /\ pc' = "done"
  /\ ccResult' = IF raised # "none"
                   THEN <<"raise", raised>>
                   ELSE IF Truthy(retval)
                     THEN <<"raise", "CalledProcessError", retval[1], ErrorCmd>>
                     ELSE <<"return", None>>
  /\ UNCHANGED <<cfgVars, spawnVars, grandKilled, clock, osVars, returncode,
                 timeVars, argVars, op, retval, raised, waitVars, thrVars,
                 histVars, waited, pChild, rewait, reapFailed>>

Caller ==
  \/ \E d \in DeadStates : CallPoll(d)
  \/ \E g \in BOOLEAN : CallKill(g)
  \/ \E t \in Timeouts, g \in BOOLEAN : CallWait(t, g)
  \/ WaitCheck
  \/ WaitReap
  \/ WaitEintr
  \/ WaitReapError
  \/ WaitStatus
  \/ WaitSetEvent
  \/ WaitJoin
  \/ WinWaitSignaled
  \/ WinWaitTimeout
  \/ WinKill
  \/ CheckCallFinish

Killer ==
  \/ KillerWake
  \/ KillerKill
  \/ KillerSet

\* ------------------------------------------------------------ claims
WaitReturned == pc = "idle" /\ op = "wait" /\ raised = "none" /\ retval # None
InWait == pc \in {"w_check", "w_block", "w_status", "w_finally", "w_join"}
KillerActive == killer \in {"k_wait", "k_kill", "k_set"}

\* C1: a child that exits normally with code c before the timeout elapses, and
\* that the calling thread reaps before the timeout elapses: wait(timeout, group)
\* returns exactly c, whatever else is alive in the child's process group.
C1_WaitReturnsExitCode ==
  (WaitReturned /\ wEntered /\ Timed /\ sawExitFirst
     /\ exitArg # None /\ exitClock < Deadline)
    => retval = exitArg

\* C2: a child still running when the timeout elapses has been killed once
\* wait(timeout)'s kill attempt is over, and the value wait(timeout) returns is
\* the killed sentinel, -9 on POSIX and 127 on Windows.
C2_TimeoutKillsAndReturnsSentinel ==
  /\ (toRunning /\ op = "wait" /\ (IF mswindows THEN pc = "idle" ELSE killer = "k_done"))
       => child # "running"
  /\ (WaitReturned /\ toRunning)
       => retval = Some(IF mswindows THEN KilledWin ELSE KilledPosix)

\* C3: POSIX: once the calling thread has reaped the child before the timeout
\* elapsed, the timer thread's kill is suppressed: with the timeout still not
\* elapsed, no kill (os.kill / os.killpg) has been issued for that wait() call.
C3_NoKillAfterExitSeen ==
  (~mswindows /\ sawExitFirst /\ clock < Deadline) => killCalls = 0

\* C4: returncode, once set, never changes to a different value.
C4_ReturncodeWrittenOnce ==
  [][returncode # None => returncode' = returncode]_vars

\* C5: during one wait() call kill() is called at most once, on either backend.
C5_KillAtMostOnce == killCalls <= 1

C5_Witness ==
  /\ WaitReturned /\ wEntered /\ Timed /\ ~mswindows
  /\ killCalls = 1 /\ exitArg # None /\ wroteBy = {"exit", "kill"}

\* C6: POSIX: the timer thread runs only while the caller is inside wait(); when
\* wait(timeout) has returned or raised, the event is set and the thread is over.
C6_TimerJoinedBeforeLeaving ==
  /\ KillerActive => InWait
  /\ (pc = "idle" /\ op = "wait" /\ wEntered /\ Timed /\ ~mswindows)
       => (doneevent /\ killer = "k_done")

C6_Witness ==
  /\ pc = "idle" /\ op = "wait" /\ raised = "OSError"
  /\ wEntered /\ Timed /\ ~mswindows
  /\ killer = "k_done" /\ killCalls = 1 /\ returncode = Some(KilledPosix)

C8_OneWriter == Cardinality(wroteBy) <= 1

C10_PollNeverRaises ==
  /\ (pc = "idle" /\ op = "poll" /\ pChild = "running")
       => (raised = "none" /\ retval = None)
  /\ (pc = "idle" /\ op = "poll" /\ pChild = "zombie" /\ exitArg # None)
       => (raised = "none" /\ retval \in {exitArg, Some(KilledCode)})

\* C11: kill() on a handle whose process has already exited, and whose exit the
\* handle has recorded in returncode, does not raise (the OS permitting signals
\* to the process).
C11_KillExitedDoesNotRaise ==
  (pc = "idle" /\ op = "kill" /\ pChild # "running" /\ killPerm
     /\ exitArg # None /\ returncode = exitArg)
    => raised = "none"

\* C12: when kill(group) has returned, returncode is the killed sentinel, the
\* process reaped or not, and a wait() called then returns the sentinel at once.
C12_KillSetsSentinel ==
  [][(pc = "idle" /\ op = "kill" /\ raised = "none")
       => /\ returncode = Some(IF mswindows THEN KilledWin ELSE KilledPosix)
          /\ (\E t \in Timeouts, g \in BOOLEAN : CallWait(t, g))
               => /\ pc' = "idle" /\ raised' = "none"
                  /\ retval' = Some(IF mswindows THEN KilledWin ELSE KilledPosix)
                  /\ child' = child /\ killer' = killer]_vars

C12_Witness ==
  /\ ~mswindows /\ killer = "none"
  /\ WaitReturned /\ ~wEntered /\ pChild = "running"
  /\ child = "zombie" /\ exitArg = None
  /\ retval = Some(KilledPosix)

\* C16: POSIX: EINTR never reaches the caller of wait(), and a wait() whose
\* reap wrote returncode returns the child's exit code, however many times the
\* reap was interrupted before.
C16_EintrRetried ==
  /\ raised # "EINTR" /\ excPending # "EINTR"
  /\ (WaitReturned /\ wEntered /\ ~mswindows /\ wroteBy = {"exit"})
       => retval = exitArg

C16_Witness ==
  /\ WaitReturned /\ wEntered /\ ~mswindows /\ ~Timed
  /\ eintr >= 1 /\ exitArg = Some(3) /\ retval = Some(3)

\* C17 as claimed: an OSError other than EINTR from the reaping call is raised to
\* the caller of wait() and of poll(), and returncode stays unset.
C17_ReapErrorPropagates ==
  (pc = "idle" /\ reapFailed) => (raised = "OSError" /\ returncode = None)

\* C17 amended: wait(), with and without timeout, raises the error and its
\* reaping path assigns nothing to returncode (unset when there is no timeout);
\* poll() catches the error, returns _deadstate and stores it when it is not None.
C17_ReapErrorInWaitAndPoll ==
  /\ (pc = "idle" /\ op = "wait" /\ reapFailed)
       => /\ raised = "OSError"
          /\ "exit" \notin wroteBy
          /\ ~Timed => returncode = None
  /\ (pc = "idle" /\ op = "poll" /\ reapFailed)
       => /\ raised = "none"
          /\ retval = returncode
          /\ retval \in DeadStates

C17_Witness ==
  /\ pc = "idle" /\ op = "wait" /\ reapFailed /\ Timed
  /\ raised = "OSError" /\ returncode = None /\ killCalls = 1

\* C18: when the timeout has elapsed with the process running and the kill
\* attempt has failed on the running process, wait() raises: the exception is
\* pending or raised, wait() is not left blocking.
C18_KillFailureRaises ==
  /\ (~mswindows /\ op = "wait" /\ toRunning /\ killer = "k_done"
        /\ "kill" \notin wroteBy /\ child = "running")
       => (excPending # "none" \/ (pc = "idle" /\ raised = "OSError"))
  /\ (mswindows /\ op = "wait" /\ toRunning /\ pc = "idle" /\ child = "running")
       => raised = "OSError"

\* C19: a wait() that went past its early return and returns a return code has
\* stored rtime, utime and stime from the reap or the process-times query.
C19_TimesFinalizedOnReturn ==
  (WaitReturned /\ wEntered /\ retval # None) => timesWrites >= 1

\* C20: rtime, utime and stime are zero until a successful reap observes the
\* exit (a poll() finding the process running leaves them zero); they are
\* stored at most once, describe the terminated process, and no later step of
\* poll(), wait() or kill() changes them.
C20_TimesZeroThenFixed ==
  /\ [](/\ timesWrites <= 1
        /\ timesWrites = 0 => (rtime = 0 /\ utime = 0 /\ stime = 0)
        /\ timesWrites = 1 => (child # "running" /\ utime = exitClock
                                  /\ rtime >= exitClock - StartTime))
  /\ [][timesWrites >= 1 => UNCHANGED <<rtime, utime, stime>>]_vars

C20_Witness ==
  /\ timesWrites = 1 /\ rtime = 1 /\ utime = 1 /\ clock = 1
  /\ pc = "idle" /\ op = "kill" /\ pChild = "reaped"

\* The child runs code that can spawn processes.
ChildExecutes == child \notin {"none", "created"}

\* C13: a kill(group=True) that returns has terminated the direct child and the
\* descendant in its process group / job; a kill(group=False) that returns has
\* terminated the direct child and left the descendant as it was; on POSIX the
\* child is in its own process group whenever it runs code that can spawn, so
\* every descendant is born in that group.
C13_GroupKill ==
  /\ [][\A g \in BOOLEAN : (CallKill(g) /\ raised' = "none")
          => /\ child' # "running"
             /\ ((g /\ grandIn) => grand' # "running")
             /\ (~g => grand' = grand)]_vars
  /\ [](~mswindows => /\ (ChildExecutes => inGroup)
                       /\ (grand # "none" => grandIn))

C13_Witness ==
  /\ ~mswindows /\ pc = "idle" /\ op = "kill" /\ raised = "none" /\ grandKilled
  /\ pChild = "running" /\ child = "zombie" /\ exitArg = None
  /\ grand = "dead" /\ grandIn

\* C15: Windows: the job object exists before the process does, the process is
\* in the job before its main thread runs, and so every descendant is born in
\* the job.
C15_InJobBeforeResume ==
  mswindows => /\ (child # "none" => job)
               /\ (inGroup => (job /\ child # "none"))
               /\ (ChildExecutes => inGroup)
               /\ (grand # "none" => grandIn)

C15_Witness ==
  /\ mswindows /\ pc = "idle" /\ spawnIdx = Len(WinSpawnOrder)
  /\ child = "running" /\ inGroup /\ grand = "running" /\ grandIn

\* The command Popen was given: its first parameter, args.
Command == IF argsKw # None THEN argsKw[1] ELSE argsPos[1]

\* C14: check_call raises CalledProcessError exactly when the wait() it made
\* returned a nonzero code, with that code and the command; it returns when the
\* code is 0; wait(), poll() and kill() never raise CalledProcessError.
C14_CheckCallRaisesOnNonzero ==
  /\ raised # "CalledProcessError" /\ excPending # "CalledProcessError"
  /\ entry = "Popen" => ccResult = <<>>
  /\ (pc = "done" /\ raised = "none")
       => /\ retval # None
          /\ retval # Some(0)
               => ccResult = <<"raise", "CalledProcessError", retval[1], Command>>
          /\ retval = Some(0) => ccResult = <<"return", None>>
  /\ (pc = "done" /\ raised # "none") => ccResult = <<"raise", raised>>

C14_Witness ==
  /\ pc = "done" /\ ~mswindows /\ argsKw = Some("dir") /\ toRunning
  /\ ccResult = <<"raise", "CalledProcessError", KilledPosix, "dir">>

Next == SpawnStep \/ Env \/ Caller \/ Killer

Spec == Init /\ [][Next]_vars
====
